---- MODULE Spec2Model ----
(***************************************************************************)
(* A model of gosnapper (src/gosnapper.go): the inventory of a tarsnap     *)
(* archive is split into balanced groups (FileGroups) and every group is   *)
(* extracted by its own goroutine (Run).                                   *)
(*                                                                         *)
(* A file name is a sequence of one-character strings ("a/b" is            *)
(* <<"a", "/", "b">>), so that the path and escaping functions of the code *)
(* are computed character by character.  A diagnostic line is a sequence   *)
(* of tokens; the three messages of tarsnap the code knows are one token   *)
(* each, followed by the newline token.                                    *)
(***************************************************************************)
EXTENDS Integers, Sequences, FiniteSets, Bags, TLC

(***************************************************************************)
(* Bounds of the model.                                                    *)
(***************************************************************************)
\* the largest -j value tried (0 selects the default pool size)
MaxJobs == 2
\* the largest number of entries of an archive listing
MaxEntries == 4
\* the largest number of entries of a previous snapshot
MaxPrevious == 1
\* the largest number of diagnostic lines one tarsnap subprocess prints
MaxLines == 2
\* the largest number of calls of GetFiles on one GoSnapper
MaxCalls == 3
\* the largest number of lines the listing subprocess prints
MaxListingLines == 2
\* the largest number of characters of a file name that is escaped
MaxNameLen == 2
\* the largest number of file names of a group that is escaped
MaxChunk == 2

(***************************************************************************)
(* Constants of the program.                                               *)
(***************************************************************************)
ThreadPoolDefaultSize == 10

NL == "\n"

ExitError == <<"tarsnap: Error exit delayed from previous errors.", NL>>

NotOlderError == <<"File on disk is not older; skipping.", NL>>

AlreadyExists == <<": Already exists", NL>>

GlobChars == <<"*", "?", "[", "]", "{", "}">>

(***************************************************************************)
(* Strings.                                                                *)
(***************************************************************************)
Range(s) == {s[i] : i \in 1..Len(s)}

\* strings.HasSuffix
HasSuffix(s, suffix) ==
    /\ Len(s) >= Len(suffix)
    /\ SubSeq(s, Len(s) - Len(suffix) + 1, Len(s)) = suffix

\* strings.TrimSuffix
TrimSuffix(s, suffix) ==
    IF HasSuffix(s, suffix) THEN SubSeq(s, 1, Len(s) - Len(suffix)) ELSE s

\* strings.Split(s, sep) for a one-character separator: the pieces between
\* the separators, empty pieces included
RECURSIVE SplitFrom(_, _, _)
SplitFrom(s, sep, cur) ==
    IF s = <<>> THEN <<cur>>
    ELSE IF Head(s) = sep THEN <<cur>> \o SplitFrom(Tail(s), sep, <<>>)
    ELSE SplitFrom(Tail(s), sep, Append(cur, Head(s)))

Split(s, sep) == SplitFrom(s, sep, <<>>)

\* strings.Join(elems, sep)
RECURSIVE Join(_, _)
Join(elems, sep) ==
    IF elems = <<>> THEN <<>>
    ELSE IF Len(elems) = 1 THEN elems[1]
    ELSE elems[1] \o <<sep>> \o Join(Tail(elems), sep)

\* strings.Replace(s, old, new, 1): the first occurrence alone is replaced
RECURSIVE ReplaceFirst(_, _, _)
ReplaceFirst(s, old, new) ==
    IF s = <<>> THEN <<>>
    ELSE IF Head(s) = old THEN new \o Tail(s)
    ELSE <<Head(s)>> \o ReplaceFirst(Tail(s), old, new)

\* strings.ReplaceAll(s, old, new) for a one-character old
RECURSIVE ReplaceAll(_, _, _)
ReplaceAll(s, old, new) ==
    IF s = <<>> THEN <<>>
    ELSE (IF Head(s) = old THEN new ELSE <<Head(s)>>) \o ReplaceAll(Tail(s), old, new)

(***************************************************************************)
(* path/filepath (Unix).                                                   *)
(***************************************************************************)
\* the components Clean keeps: empty and "." components are dropped, ".."
\* removes the component before it (at the root it is dropped, at the
\* start of a relative path it is kept)
RECURSIVE CleanComponents(_, _, _)
CleanComponents(comps, rooted, out) ==
    IF comps = <<>> THEN out
    ELSE LET c == Head(comps)
             rest == Tail(comps)
         IN  IF c = <<>> \/ c = <<".">> THEN CleanComponents(rest, rooted, out)
             ELSE IF c = <<".", ".">> THEN
                 IF out # <<>> /\ out[Len(out)] # <<".", ".">>
                 THEN CleanComponents(rest, rooted, SubSeq(out, 1, Len(out) - 1))
                 ELSE IF rooted THEN CleanComponents(rest, rooted, out)
                 ELSE CleanComponents(rest, rooted, Append(out, c))
             ELSE CleanComponents(rest, rooted, Append(out, c))

\* filepath.Clean
Clean(path) ==
    IF path = <<>> THEN <<".">>
    ELSE LET rooted == path[1] = "/"
             body == Join(CleanComponents(Split(path, "/"), rooted, <<>>), "/")
             res == (IF rooted THEN <<"/">> ELSE <<>>) \o body
         IN  IF res = <<>> THEN <<".">> ELSE res

\* the index of the last "/" of path, 0 when there is none
LastSlash(path) ==
    LET at == {i \in 1..Len(path) : path[i] = "/"}
    IN  IF at = {} THEN 0 ELSE CHOOSE i \in at : \A j \in at : j <= i

\* filepath.Dir: all but the last element of path, cleaned
Dir(path) == Clean(SubSeq(path, 1, LastSlash(path)))

(***************************************************************************)
(* The archives, previous snapshots and diagnostic lines tried.            *)
(***************************************************************************)
DirNames == {<<"a", "/">>, <<"a", "/", "b", "/">>, <<"x", "/">>}

FileNames == {<<"a", "/", "b", "/", "c">>, <<"f">>, <<"g", "*">>, <<"h">>}

Names == DirNames \cup FileNames

Sizes == {10, 100}

Dates == {1, 2}

\* the zero time.Time of a FileInfo built without a Date
ZeroDate == 0

\* type FileInfo
FileInfo == [Size : Sizes \cup {0}, Date : Dates \cup {ZeroDate}]

\* what a listing line of tarsnap gives for an entry of that name
ListedInfo(name) ==
    IF name \in DirNames THEN {[Size |-> 0, Date |-> 1]}
    ELSE [Size : Sizes, Date : {1}]

\* the listings of at most n entries with these names
Listings(names, n) ==
    UNION {{m \in [S -> FileInfo] : \A name \in S : m[name] \in ListedInfo(name)} :
           S \in {T \in SUBSET names : Cardinality(T) <= n}}

\* the names of the archives whose extraction is followed to its end
RunNames == {<<"x", "/">>, <<"g", "*">>}

\* the maps of at most n entries a caller may pass as Options.Previous
PreviousMaps(n) ==
    UNION {[S -> [Size : Sizes, Date : Dates]] :
           S \in {T \in SUBSET FileNames : Cardinality(T) <= n}}

\* Options.Previous: a nil map, or a map
EmptyMap == <<>>

NoPrevious == [isNil |-> TRUE, m |-> EmptyMap]

PreviousOptions(n) ==
    {NoPrevious} \cup {[isNil |-> FALSE, m |-> m] : m \in PreviousMaps(n)}

(***************************************************************************)
(* The state of a run.                                                     *)
(***************************************************************************)
VARIABLES
    listing,       \* the entries tarsnap -tvf lists for the archive
    listStart,     \* how the listing subprocess fares: "ok"; "pipe" and "start",
                   \* it cannot be piped or started; "wait", it lists the
                   \* archive and cmd.Wait returns an error
    options,       \* rs.options: ThreadPoolSize and Previous
    tpsize,        \* rs.tpsize
    files,         \* rs.files: [isNil, m]
    pc,            \* where the main goroutine is
    groups,        \* FileGroups: the groups being filled
    entries,       \* FileGroups: the targets, sorted
    assigned,      \* FileGroups: how many entries the loop of line 255 has taken
    fileGroups,    \* Run: the file lists FileGroups returned; worker w's chunk
                   \* is fileGroups[w] (the slices share their array)
    wg,            \* Run: the counter of the WaitGroup
    outputMutex,   \* rs.outputMutex: Free, or the goroutine that holds it
    errorOccured,  \* rs.errorOccured
    stderr,        \* os.Stderr: the bag of the messages written to it
    wpc,           \* where each launched worker goroutine is
    line,          \* the text of the line each worker has read and not yet
                   \* finished with (NoLine when there is none)
    nread,         \* how many lines each worker has read from its subprocess
    exitErrorRead, \* history: some worker has read a line equal to ExitError
    returned,      \* history: for each call of GetFiles, in their order, the
                   \* value it returned and whether it started the listing
                   \* subprocess
    input,         \* the arguments of a function that is called by itself
    output,        \* what that call returned, once it has returned
    scanned        \* GetFiles: how many listing lines the loop of line 111 has
                   \* read, when the lines are given

vars == <<listing, listStart, options, tpsize, files, pc, groups, entries, assigned,
          fileGroups, wg, outputMutex, errorOccured, stderr, wpc, line, nread,
          exitErrorRead, returned, input, output, scanned>>

inputVars == <<listing, listStart, options, tpsize>>

\* a function called by itself, outside Run
callVars == <<input, output, scanned>>

otherVars == <<inputVars, exitErrorRead, returned, callVars>>

partitionVars == <<groups, entries, assigned, fileGroups>>

workerVars == <<wpc, line, nread>>

\* the main goroutine, as a holder of the mutex; worker w is w >= 1
Main == 0

Free == -1

NoLine == <<NL>>

\* a message on os.Stderr
Msg(kind, idx, text) == [kind |-> kind, idx |-> idx, text |-> text]

\* fmt.Fprintf(os.Stderr, ...)
Fprintf(out, msg) == out (+) SetToBag({msg})

\* Lock that does not wait for the mutex to be free
LockWithoutWaiting(t) == outputMutex' = t

\* sync.Mutex.Lock by goroutine t: it returns once the mutex is free
Lock(t) == outputMutex = Free /\ outputMutex' = t

\* sync.Mutex.Unlock
Unlock(t) == outputMutex' = Free

(***************************************************************************)
(* NewGoSnapper.                                                           *)
(***************************************************************************)
NewTpsize(threadPoolSize) ==
    IF threadPoolSize = 0 THEN ThreadPoolDefaultSize ELSE threadPoolSize

(***************************************************************************)
(* EmptyDirs and FilesToExtract.                                           *)
(***************************************************************************)
\* ParentDirs with i <= len(components)-1 for the test of line 184: the
\* directory is deleted with its parents
ParentDirsAndSelf(dir) ==
    LET components == Split(TrimSuffix(dir, <<"/">>), "/")
    IN  {Join(SubSeq(components, 1, i), "/") \o <<"/">> : i \in 1..Len(components)}

\* the directories the second loop of EmptyDirs deletes for dir: every
\* proper prefix of its components
ParentDirs(dir) ==
    LET components == Split(TrimSuffix(dir, <<"/">>), "/")
    IN  {Join(SubSeq(components, 1, i), "/") \o <<"/">> : i \in 1..(Len(components) - 1)}

\* EmptyDirs, on the sets of names the slices hold; the result is the key
\* set of the map emptyDirs
EmptyDirs(fileNames, dirs) ==
    (dirs \ {Dir(file) \o <<"/">> : file \in fileNames})
        \ UNION {ParentDirs(dir) : dir \in dirs}

IsDirName(name) == HasSuffix(name, <<"/">>)

\* FilesToExtract with the else of line 209 lost: a directory is kept as a
\* file too
FilesToExtractKeepingDirs(allFiles) ==
    LET dirs == {name \in DOMAIN allFiles : IsDirName(name)}
        fileNames == {name \in DOMAIN allFiles : ~IsDirName(name)}
        emptyDirs == EmptyDirs(fileNames, dirs)
    IN  [name \in DOMAIN allFiles |->
            IF name \in emptyDirs THEN [Size |-> 0, Date |-> ZeroDate]
            ELSE allFiles[name]]

\* FilesToExtract, given the map GetFiles returned
FilesToExtract(allFiles) ==
    LET dirs == {name \in DOMAIN allFiles : IsDirName(name)}
        fileNames == {name \in DOMAIN allFiles : ~IsDirName(name)}
        emptyDirs == EmptyDirs(fileNames, dirs)
    IN  [name \in fileNames \cup emptyDirs |->
            IF name \in emptyDirs THEN [Size |-> 0, Date |-> ZeroDate]
            ELSE allFiles[name]]

(***************************************************************************)
(* FileGroups.                                                             *)
(***************************************************************************)
\* the orders of the elements of S
RECURSIVE Orders(_)
Orders(S) ==
    IF S = {} THEN {<<>>}
    ELSE UNION {{<<x>> \o rest : rest \in Orders(S \ {x})} : x \in S}

\* sort.Slice with the comparison of line 251, on entries collected from a
\* map: any order of the targets in which no entry is followed by a larger
\* one (the map is walked in any order and the sort is not stable)
SortedEntries(filesToExtract) ==
    {[i \in 1..Len(o) |-> [Name |-> o[i], Info |-> filesToExtract[o[i]]]] :
        o \in {p \in Orders(DOMAIN filesToExtract) :
                 \A i \in 1..(Len(p) - 1) :
                    ~(filesToExtract[p[i + 1]].Size > filesToExtract[p[i]].Size)}}

\* Weight with the dates of line 261 not compared
WeightIgnoringDate(entry, previous) ==
    IF /\ ~previous.isNil
       /\ entry.Name \in DOMAIN previous.m
       /\ previous.m[entry.Name].Size = entry.Info.Size
    THEN 0
    ELSE entry.Info.Size

\* the size FileGroups adds to a group for an entry (lines 256-265)
Weight(entry, previous) ==
    IF /\ ~previous.isNil
       /\ entry.Name \in DOMAIN previous.m
       /\ previous.m[entry.Name].Size = entry.Info.Size
       /\ previous.m[entry.Name].Date = entry.Info.Date
    THEN 0
    ELSE entry.Info.Size

\* ScanSmallest with <= for the < of line 270: of the groups tied for
\* smallest the last is kept
RECURSIVE ScanSmallestOrEqual(_, _, _)
ScanSmallestOrEqual(gs, i, smallest) ==
    IF i > Len(gs) THEN smallest
    ELSE IF gs[i].Size <= gs[smallest].Size THEN ScanSmallestOrEqual(gs, i + 1, i)
    ELSE ScanSmallestOrEqual(gs, i + 1, smallest)

\* the loop of lines 268-273: the index of the group kept when the scan,
\* which starts with the first group, has reached group i
RECURSIVE ScanSmallest(_, _, _)
ScanSmallest(gs, i, smallest) ==
    IF i > Len(gs) THEN smallest
    ELSE IF gs[i].Size < gs[smallest].Size THEN ScanSmallest(gs, i + 1, i)
    ELSE ScanSmallest(gs, i + 1, smallest)

\* SmallestGroup with > for the < of line 270: the largest group is kept
RECURSIVE ScanLargest(_, _, _)
ScanLargest(gs, i, largest) ==
    IF i > Len(gs) THEN largest
    ELSE IF gs[i].Size > gs[largest].Size THEN ScanLargest(gs, i + 1, i)
    ELSE ScanLargest(gs, i + 1, largest)

LargestGroup(gs) == ScanLargest(gs, 1, 1)

SmallestGroup(gs) == ScanSmallest(gs, 1, 1)

\* Group.Add
Add(g, name, size) == [Files |-> Append(g.Files, name), Size |-> g.Size + size]

\* NonEmptyFiles without the test of line 281
RECURSIVE AllGroupFiles(_)
AllGroupFiles(gs) ==
    IF gs = <<>> THEN <<>> ELSE <<Head(gs).Files>> \o AllGroupFiles(Tail(gs))

\* lines 279-284: the file lists of the groups that hold a file
RECURSIVE NonEmptyFiles(_)
NonEmptyFiles(gs) ==
    IF gs = <<>> THEN <<>>
    ELSE (IF Len(Head(gs).Files) > 0 THEN <<Head(gs).Files>> ELSE <<>>)
            \o NonEmptyFiles(Tail(gs))

(***************************************************************************)
(* The diagnostic lines of an extraction subprocess.                       *)
(***************************************************************************)
\* the texts bufio.Scanner returns, each a line without its newline: other
\* text ("x"), the three messages alone, after other text and before it
LineTexts ==
    {<<"x">>,
     <<ExitError[1]>>, <<"x", ExitError[1]>>,
     <<NotOlderError[1]>>, <<"x", NotOlderError[1]>>, <<NotOlderError[1], "x">>,
     <<"x", AlreadyExists[1]>>, <<AlreadyExists[1], "x">>}

\* strings.Contains
Contains(s, sub) ==
    \E i \in 1..(Len(s) - Len(sub) + 1) : SubSeq(s, i, i + Len(sub) - 1) = sub

\* Classify with HasSuffix for the == of line 346
ClassifyExitBySuffix(text) ==
    LET l == text \o <<NL>>
    IN  IF HasSuffix(l, NotOlderError) \/ HasSuffix(l, AlreadyExists) THEN "skip"
        ELSE IF HasSuffix(l, ExitError) THEN "error"
        ELSE "forward"

\* Classify with the messages of line 343 looked for anywhere in the line
ClassifyByContains(text) ==
    LET l == text \o <<NL>>
    IN  IF Contains(l, <<NotOlderError[1]>>) \/ Contains(l, <<AlreadyExists[1]>>) THEN "skip"
        ELSE IF l = ExitError THEN "error"
        ELSE "forward"

\* lines 342-349: what the loop does with the line of this text
Classify(text) ==
    LET l == text \o <<NL>>
    IN  IF HasSuffix(l, NotOlderError) \/ HasSuffix(l, AlreadyExists) THEN "skip"
        ELSE IF l = ExitError THEN "error"
        ELSE "forward"

\* lines 310-315: a file name with its glob characters escaped, one
\* ReplaceAll for each of GlobChars, in their order, each on the result of
\* the one before (f is that result, computed once)
RECURSIVE EscapeFrom(_, _)
EscapeFrom(file, i) ==
    IF i > Len(GlobChars) THEN file
    ELSE CHOOSE out \in {EscapeFrom(f, i + 1) :
                            f \in {ReplaceAll(file, GlobChars[i], <<"\\", GlobChars[i]>>)}} : TRUE

Escape(file) == EscapeFrom(file, 1)

\* the loop of line 310, over the files of a chunk
EscapeAll(chunk) == [i \in 1..Len(chunk) |-> Escape(chunk[i])]

(***************************************************************************)
(* Initial states: NewGoSnapper has returned and Run is about to start.    *)
(***************************************************************************)
NoInput == [op |-> "none"]

NoOutput == [done |-> FALSE]

InitWith(listings, previous) ==
    /\ listing \in listings
    /\ listStart \in {"ok", "pipe", "start", "wait"}
    \* a subprocess that was not started lists nothing
    /\ listStart \in {"pipe", "start"} => listing = EmptyMap
    /\ options \in [ThreadPoolSize : 0..MaxJobs, Previous : previous]
    /\ tpsize = NewTpsize(options.ThreadPoolSize)
    /\ files = [isNil |-> TRUE, m |-> EmptyMap]
    /\ pc = "FileGroups"
    /\ groups = <<>>
    /\ entries = <<>>
    /\ assigned = 0
    /\ fileGroups = <<>>
    /\ wg = 0
    /\ outputMutex = Free
    /\ errorOccured = FALSE
    /\ stderr = EmptyBag
    /\ wpc = <<>>
    /\ line = <<>>
    /\ nread = <<>>
    /\ exitErrorRead = FALSE
    /\ returned = <<>>
    /\ input = NoInput
    /\ output = NoOutput
    /\ scanned = 0

Init == InitWith(Listings(RunNames, MaxEntries), {NoPrevious})

InitPartition == InitWith(Listings(Names, MaxEntries), PreviousOptions(MaxPrevious))

\* a GoSnapper of which one function is called by itself, with one of these
\* arguments
InitCall(inputs) ==
    /\ listing = EmptyMap
    /\ listStart = "ok"
    /\ options = [ThreadPoolSize |-> 0, Previous |-> NoPrevious]
    /\ tpsize = NewTpsize(options.ThreadPoolSize)
    /\ files = [isNil |-> TRUE, m |-> EmptyMap]
    /\ pc = "call"
    /\ groups = <<>>
    /\ entries = <<>>
    /\ assigned = 0
    /\ fileGroups = <<>>
    /\ wg = 0
    /\ outputMutex = Free
    /\ errorOccured = FALSE
    /\ stderr = EmptyBag
    /\ wpc = <<>>
    /\ line = <<>>
    /\ nread = <<>>
    /\ exitErrorRead = FALSE
    /\ returned = <<>>
    /\ input \in inputs
    /\ output = NoOutput
    /\ scanned = 0

\* the function has returned this value
Return(value) ==
    /\ ~output.done
    /\ output' = [done |-> TRUE, value |-> value]
    /\ UNCHANGED <<inputVars, exitErrorRead, returned, input, scanned, files, pc,
                   partitionVars, wg, outputMutex, errorOccured, stderr, workerVars>>

(***************************************************************************)
(* The main goroutine: FileGroups.                                         *)
(***************************************************************************)
\* lines 230-236
FileGroupsBegin ==
    /\ pc = "FileGroups"
    /\ tpsize >= 0
    /\ groups' = [i \in 1..tpsize |-> [Files |-> <<>>, Size |-> 0]]
    /\ pc' = "GetFiles"
    /\ UNCHANGED <<otherVars, files, entries, assigned, fileGroups, wg, outputMutex,
                   errorOccured, stderr, workerVars>>

\* GetFiles that never finds the inventory built
NeverCached == FALSE

\* line 85: the inventory has been built
Cached == ~files.isNil

\* GetFiles, called by FilesToExtract (line 201).  The listing is taken as
\* parsed: listing holds the entries the loop of lines 111-155 stores.
GetFiles ==
    /\ pc = "GetFiles"
    /\ IF Cached
       THEN /\ returned' = Append(returned, [value |-> files, ran |-> FALSE])
            /\ UNCHANGED <<files, stderr>>
       ELSE IF listStart = "pipe"
       THEN /\ stderr' = Fprintf(stderr, Msg("Error creating stdout pipe", Main, <<>>))
            /\ returned' = Append(returned, [value |-> [isNil |-> TRUE, m |-> EmptyMap],
                                             ran |-> FALSE])
            /\ UNCHANGED files
       ELSE IF listStart = "start"
       THEN /\ stderr' = Fprintf(stderr, Msg("Error starting tarsnap", Main, <<>>))
            /\ returned' = Append(returned, [value |-> [isNil |-> TRUE, m |-> EmptyMap],
                                             ran |-> FALSE])
            /\ UNCHANGED files
       ELSE /\ files' = [isNil |-> FALSE, m |-> listing]
            /\ outputMutex = Free
            /\ stderr' = Fprintf(IF listStart = "wait"
                                  THEN Fprintf(stderr, Msg("Error waiting for tarsnap", Main, <<>>))
                                  ELSE stderr,
                                 Msg("File scanning complete", Cardinality(DOMAIN listing), <<>>))
            /\ returned' = Append(returned, [value |-> files', ran |-> TRUE])
    /\ pc' = "FilesToExtract"
    /\ UNCHANGED <<inputVars, exitErrorRead, callVars, partitionVars, wg, outputMutex,
                   errorOccured, workerVars>>

\* GetFiles is called once more on the same GoSnapper; the listing
\* subprocess may fare otherwise than before
GetFilesAgain ==
    /\ pc = "FilesToExtract"
    /\ Len(returned) < MaxCalls
    /\ listStart' \in {"ok", "pipe", "start", "wait"}
    /\ pc' = "GetFiles"
    /\ UNCHANGED <<listing, options, tpsize, exitErrorRead, returned, callVars, files,
                   partitionVars, wg, outputMutex, errorOccured, stderr, workerVars>>

\* lines 239-252: the targets, collected from the map and sorted
FileGroupsSort ==
    /\ pc = "FilesToExtract"
    /\ entries' \in SortedEntries(FilesToExtract(files.m))
    /\ pc' = "assign"
    /\ UNCHANGED <<otherVars, files, groups, assigned, fileGroups, wg, outputMutex,
                   errorOccured, stderr, workerVars>>

\* the groups after the loop body of lines 256-275 has run for entry
Assign(gs, entry, previous) ==
    LET smallest == SmallestGroup(gs)
    IN  [gs EXCEPT ![smallest] = Add(gs[smallest], entry.Name, Weight(entry, previous))]

\* one iteration of the loop of line 255
FileGroupsAssign ==
    /\ pc = "assign"
    /\ assigned < Len(entries)
    /\ groups' = Assign(groups, entries[assigned + 1], options.Previous)
    /\ assigned' = assigned + 1
    /\ UNCHANGED <<otherVars, files, pc, entries, fileGroups, wg, outputMutex,
                   errorOccured, stderr, workerVars>>

\* lines 279-286, and line 292
FileGroupsReturn ==
    /\ pc = "assign"
    /\ assigned = Len(entries)
    /\ fileGroups' = NonEmptyFiles(groups)
    /\ pc' = "announce"
    /\ UNCHANGED <<otherVars, files, groups, entries, assigned, wg, outputMutex,
                   errorOccured, stderr, workerVars>>

NextPartition ==
    \/ FileGroupsBegin
    \/ GetFiles
    \/ FileGroupsSort
    \/ FileGroupsAssign
    \/ FileGroupsReturn

SpecPartition == InitPartition /\ [][NextPartition]_vars

\* a user of the package that calls GetFiles again and again
NextGetFiles ==
    \/ FileGroupsBegin
    \/ GetFiles
    \/ GetFilesAgain

SpecGetFiles == Init /\ [][NextGetFiles]_vars

(***************************************************************************)
(* The listing lines of tarsnap -tvf and their parsing (lines 111-155).    *)
(* A line is a sequence of characters; a month name is one character of    *)
(* the model.                                                              *)
(***************************************************************************)
\* unicode.IsSpace, for the characters of the model
IsSpace(c) == c \in {" ", "\t"}

\* strings.Fields: the maximal runs of characters that are no white space
RECURSIVE FieldsFrom(_, _)
FieldsFrom(s, cur) ==
    IF s = <<>> THEN (IF cur = <<>> THEN <<>> ELSE <<cur>>)
    ELSE IF IsSpace(Head(s))
         THEN (IF cur = <<>> THEN <<>> ELSE <<cur>>) \o FieldsFrom(Tail(s), <<>>)
         ELSE FieldsFrom(Tail(s), Append(cur, Head(s)))

Fields(s) == FieldsFrom(s, <<>>)

DecimalDigits == <<"0", "1", "2", "3", "4", "5", "6", "7", "8", "9">>

IsDigit(c) == c \in Range(DecimalDigits)

DigitValue(c) == (CHOOSE i \in 1..10 : DecimalDigits[i] = c) - 1

\* the number the decimal digits s write
RECURSIVE Atoi(_)
Atoi(s) ==
    IF s = <<>> THEN 0 ELSE 10 * Atoi(SubSeq(s, 1, Len(s) - 1)) + DigitValue(s[Len(s)])

AllDigits(s) == \A i \in 1..Len(s) : IsDigit(s[i])

\* a failed conversion
Failure == [ok |-> FALSE]

\* strconv.ParseInt(s, 10, 64): an optional sign and one digit or more
\* (the numbers of the model are far from the ends of int64)
ParseInt(s) ==
    LET signed == s # <<>> /\ s[1] \in {"+", "-"}
        digits == IF signed THEN Tail(s) ELSE s
    IN  IF digits = <<>> \/ ~AllDigits(digits) THEN Failure
        ELSE [ok |-> TRUE,
              value |-> IF signed /\ s[1] = "-" THEN 0 - Atoi(digits) ELSE Atoi(digits)]

\* strings.Contains for one character
ContainsChar(s, c) == c \in Range(s)

\* fmt.Sprintf("%d", n), n >= 0
RECURSIVE Itoa(_)
Itoa(n) ==
    IF n < 10 THEN <<DecimalDigits[n + 1]>>
    ELSE Itoa(n \div 10) \o <<DecimalDigits[(n % 10) + 1]>>

\* package time: the month names of the layout element "Jan"
MonthNames ==
    <<"Jan", "Feb", "Mar", "Apr", "May", "Jun", "Jul", "Aug", "Sep", "Oct", "Nov", "Dec">>

IsLeap(year) == year % 4 = 0 /\ (year % 100 # 0 \/ year % 400 = 0)

DaysIn(month, year) ==
    IF month = 2 THEN (IF IsLeap(year) THEN 29 ELSE 28)
    ELSE IF month \in {4, 6, 9, 11} THEN 30 ELSE 31

\* the layout element "Jan"
ParseMonth(s) ==
    IF Len(s) = 1 /\ s[1] \in Range(MonthNames)
    THEN [ok |-> TRUE, value |-> CHOOSE i \in 1..12 : MonthNames[i] = s[1]]
    ELSE Failure

\* the layout element "2": one digit or two
ParseDay(s) ==
    IF Len(s) \in {1, 2} /\ AllDigits(s) THEN [ok |-> TRUE, value |-> Atoi(s)] ELSE Failure

\* the layout element "2006": four digits
ParseYear(s) ==
    IF Len(s) = 4 /\ AllDigits(s) THEN [ok |-> TRUE, value |-> Atoi(s)] ELSE Failure

\* the layout elements "15:04": an hour of one digit or two, a colon, a
\* minute of two digits
ParseClock(s) ==
    LET colons == {i \in 1..Len(s) : s[i] = ":"}
        at == CHOOSE i \in colons : \A j \in colons : i <= j
        hour == SubSeq(s, 1, at - 1)
        minute == SubSeq(s, at + 1, Len(s))
    IN  IF /\ colons # {}
           /\ Len(hour) \in {1, 2} /\ AllDigits(hour) /\ Atoi(hour) < 24
           /\ Len(minute) = 2 /\ AllDigits(minute) /\ Atoi(minute) < 60
        THEN [ok |-> TRUE, hour |-> Atoi(hour), minute |-> Atoi(minute)]
        ELSE Failure

\* time.Parse of a string that is parts, joined by single spaces, with the
\* layout "Jan 2 2006 15:04" (withClock) or "Jan 2 2006"
TimeParse(withClock, parts) ==
    IF Len(parts) # (IF withClock THEN 4 ELSE 3) THEN Failure
    ELSE LET month == ParseMonth(parts[1])
             day == ParseDay(parts[2])
             year == ParseYear(parts[3])
             clock == IF withClock THEN ParseClock(parts[4])
                      ELSE [ok |-> TRUE, hour |-> 0, minute |-> 0]
         IN  IF /\ month.ok /\ day.ok /\ year.ok /\ clock.ok
                /\ day.value >= 1
                /\ day.value <= DaysIn(month.value, year.value)
             THEN [ok |-> TRUE,
                   value |-> [year |-> year.value, month |-> month.value, day |-> day.value,
                              hour |-> clock.hour, minute |-> clock.minute]]
             ELSE Failure

\* time.Time.After
After(t, u) ==
    LET a == <<t.year, t.month, t.day, t.hour, t.minute>>
        b == <<u.year, u.month, u.day, u.hour, u.minute>>
    IN  \E i \in 1..5 : a[i] > b[i] /\ \A j \in 1..(i - 1) : a[j] = b[j]

\* time.Time.AddDate(-1, 0, 0): a 29th of February becomes the 1st of March
AYearBefore(t) ==
    IF t.day > DaysIn(t.month, t.year - 1)
    THEN [t EXCEPT !.year = @ - 1, !.month = 3, !.day = 1]
    ELSE [t EXCEPT !.year = @ - 1]

\* lines 123-149: the date of the entry, from its fields
ParseDate(fields, now) ==
    LET month == fields[6]
        day == fields[7]
        yearOrTime == fields[8]
        withTime == ContainsChar(yearOrTime, ":")
        dateStr == IF withTime THEN <<month, day, Itoa(now.year), yearOrTime>>
                   ELSE <<month, day, yearOrTime>>
        first == TimeParse(TRUE, dateStr)
        date == IF first.ok THEN first ELSE TimeParse(FALSE, dateStr)
    IN  IF ~date.ok THEN Failure
        ELSE [ok |-> TRUE,
              value |-> IF After(date.value, now) THEN AYearBefore(date.value)
                        ELSE date.value]

\* NameOf that takes the ninth field alone
NinthField(fields) == fields[9]

\* line 126
NameOf(fields) == Join(SubSeq(fields, 9, Len(fields)), " ")

\* lines 112-154: what the loop body does with a line: nothing, or the
\* entry it stores
ParseEntry(entry, now) ==
    LET fields == Fields(entry)
    IN  IF Len(fields) < 9 THEN Failure
        ELSE LET size == ParseInt(fields[5])
             IN  IF ~size.ok THEN Failure
                 ELSE LET date == ParseDate(fields, now)
                      IN  IF ~date.ok THEN Failure
                          ELSE [ok |-> TRUE, name |-> NameOf(fields),
                                info |-> [Size |-> size.value, Date |-> date.value]]

\* rs.files[name] = info
Put(m, name, info) ==
    [n \in DOMAIN m \cup {name} |-> IF n = name THEN info ELSE m[n]]

(***************************************************************************)
(* GetFiles, with the lines the listing subprocess prints given.           *)
(***************************************************************************)
\* the lines tried: mode, links, owner, group, then a size, a month, a
\* day, a year or a time, and a name of no field, one or two
ListedSizes == {<<"1", "0">>, <<"-", "5">>, <<"1", "x">>}

ListedMonths == {<<"Feb">>, <<"Foo">>}

ListedDays == {<<"2">>, <<"3", "0">>}

ListedYears == {<<"2", "0", "2", "0">>, <<"1", "5", ":", "0", "4">>, <<"x">>}

ListedNames == {<<>>, <<"f">>, <<"a", "/">>, <<"f", " ", " ", "g">>}

ListingLine(size, month, day, yearOrTime, name) ==
    <<"-rw-r--r--", " ", "1", " ", "u", "\t", "g", " ">> \o size \o <<" ">> \o month
        \o <<" ">> \o day \o <<" ">> \o yearOrTime \o <<" ">> \o name

ListingLines ==
    {ListingLine(size, month, day, yearOrTime, name) :
        size \in ListedSizes, month \in ListedMonths, day \in ListedDays,
        yearOrTime \in ListedYears, name \in ListedNames}

\* time.Now()
Nows == {[year |-> 2026, month |-> 1, day |-> 15, hour |-> 12, minute |-> 0]}

\* the sequences of at most n elements of S
SeqsUpTo(S, n) == UNION {[1..k -> S] : k \in 0..n}

GetFilesInputs ==
    [op : {"GetFiles"}, lines : SeqsUpTo(ListingLines, MaxListingLines), now : Nows]

InitScan == InitCall(GetFilesInputs)

\* lines 95-109: the subprocess has started
ScanBegin ==
    /\ input.op = "GetFiles"
    /\ pc = "call"
    /\ ~Cached
    /\ files' = [isNil |-> FALSE, m |-> EmptyMap]
    /\ pc' = "scan"
    /\ UNCHANGED <<otherVars, partitionVars, wg, outputMutex, errorOccured, stderr, workerVars>>

\* lines 111-155: one iteration of the loop
ScanEntry ==
    /\ pc = "scan"
    /\ scanned < Len(input.lines)
    /\ LET parsed == ParseEntry(input.lines[scanned + 1], input.now)
       IN  files' = IF parsed.ok THEN [files EXCEPT !.m = Put(@, parsed.name, parsed.info)]
                    ELSE files
    /\ scanned' = scanned + 1
    /\ UNCHANGED <<inputVars, exitErrorRead, returned, input, output, pc, partitionVars, wg,
                   outputMutex, errorOccured, stderr, workerVars>>

\* lines 157-165: the stream has ended
ScanReturn ==
    /\ pc = "scan"
    /\ scanned = Len(input.lines)
    /\ outputMutex = Free
    /\ stderr' = Fprintf(stderr, Msg("File scanning complete", Cardinality(DOMAIN files.m), <<>>))
    /\ output' = [done |-> TRUE, value |-> files]
    /\ pc' = "returned"
    /\ UNCHANGED <<inputVars, exitErrorRead, returned, input, scanned, files, partitionVars,
                   wg, outputMutex, errorOccured, workerVars>>

NextScan ==
    \/ ScanBegin
    \/ ScanEntry
    \/ ScanReturn

SpecScan == InitScan /\ [][NextScan]_vars

(***************************************************************************)
(* The escaping of the file names of a group (lines 310-320), by itself.   *)
(***************************************************************************)
\* the characters of the file names tried: the glob characters, a letter
\* and the backslash
NameChars == Range(GlobChars) \cup {"a", "\\"}

EscapedNames == SeqsUpTo(NameChars, MaxNameLen)

EscapeInputs == [op : {"Escape"}, chunk : SeqsUpTo(EscapedNames, MaxChunk) \ {<<>>}]

InitEscape == InitCall(EscapeInputs)

\* lines 310-320: the file names appended to the arguments of the
\* subprocess
CallEscape ==
    /\ input.op = "Escape"
    /\ Return(EscapeAll(input.chunk))

SpecEscape == InitEscape /\ [][CallEscape]_vars

(***************************************************************************)
(* EmptyDirs, called by itself.                                            *)
(***************************************************************************)
\* directory names and file names of archives: plain ones, and ones of an
\* archive made of ".", whose names start with "./"
ReconciledDirs ==
    {<<"a", "/">>, <<"a", "/", "b", "/">>, <<"x", "/">>, <<"y", "/">>,
     <<".", "/", "d", "/">>}

ReconciledFiles ==
    {<<"a", "/", "b", "/", "c", ".", "t", "x", "t">>, <<"a", "/", "f">>, <<"f">>,
     <<".", "/", "d", "/", "f">>}

EmptyDirsInputs ==
    [op : {"EmptyDirs"}, files : SUBSET ReconciledFiles, dirs : SUBSET ReconciledDirs]

InitEmptyDirs == InitCall(EmptyDirsInputs)

\* lines 169-197
CallEmptyDirs ==
    /\ input.op = "EmptyDirs"
    /\ Return(EmptyDirs(input.files, input.dirs))

SpecEmptyDirs == InitEmptyDirs /\ [][CallEmptyDirs]_vars

(***************************************************************************)
(* FilesToExtract, with the inventory GetFiles returns given.              *)
(***************************************************************************)
\* the inventories of these names: a directory is listed with size 0
Inventories(names) ==
    {[name \in S |-> [Size |-> IF IsDirName(name) THEN 0 ELSE 10, Date |-> 1]] :
        S \in SUBSET names}

FilesToExtractInputs ==
    [op : {"FilesToExtract"}, allFiles : Inventories(ReconciledDirs \cup ReconciledFiles)]

InitFilesToExtract == InitCall(FilesToExtractInputs)

\* lines 200-226
CallFilesToExtract ==
    /\ input.op = "FilesToExtract"
    /\ Return(FilesToExtract(input.allFiles))

SpecFilesToExtract == InitFilesToExtract /\ [][CallFilesToExtract]_vars

(***************************************************************************)
(* The main goroutine: Run.                                                *)
(***************************************************************************)
Workers == DOMAIN wpc

\* lines 294-296
Announce ==
    /\ pc = "announce"
    /\ outputMutex = Free
    /\ stderr' = Fprintf(stderr, Msg("Creating worker threads", Len(fileGroups), <<>>))
    /\ pc' = "launch"
    /\ UNCHANGED <<otherVars, files, partitionVars, wg, outputMutex, errorOccured, workerVars>>

\* lines 298-300 and 363: wg.Add(1) and the go statement, for the next group
Launch ==
    /\ pc = "launch"
    /\ Len(wpc) < Len(fileGroups)
    /\ wg' = wg + 1
    /\ wpc' = Append(wpc, "begin")
    /\ line' = Append(line, NoLine)
    /\ nread' = Append(nread, 0)
    /\ UNCHANGED <<otherVars, files, pc, partitionVars, outputMutex, errorOccured, stderr>>

\* Run without the wg.Wait of line 366
WaitWithoutWaiting ==
    /\ pc = "launch"
    /\ Len(wpc) = Len(fileGroups)
    /\ pc' = "check"
    /\ UNCHANGED <<otherVars, files, partitionVars, wg, outputMutex, errorOccured, stderr,
                   workerVars>>

\* line 366: wg.Wait returns once the counter is zero
Wait ==
    /\ pc = "launch"
    /\ Len(wpc) = Len(fileGroups)
    /\ wg = 0
    /\ pc' = "check"
    /\ UNCHANGED <<otherVars, files, partitionVars, wg, outputMutex, errorOccured, stderr,
                   workerVars>>

\* line 368
CheckError ==
    /\ pc = "check"
    /\ pc' = IF errorOccured THEN "final_lock" ELSE "returned"
    /\ UNCHANGED <<otherVars, files, partitionVars, wg, outputMutex, errorOccured, stderr,
                   workerVars>>

\* line 369
FinalLock ==
    /\ pc = "final_lock"
    /\ Lock(Main)
    /\ pc' = "final_write"
    /\ UNCHANGED <<otherVars, files, partitionVars, wg, errorOccured, stderr, workerVars>>

\* lines 370-371
FinalWrite ==
    /\ pc = "final_write"
    /\ stderr' = Fprintf(stderr, Msg("ExitError", Main, ExitError))
    /\ Unlock(Main)
    /\ pc' = "returned"
    /\ UNCHANGED <<otherVars, files, partitionVars, wg, errorOccured, workerVars>>

(***************************************************************************)
(* A worker goroutine (lines 300-363).  At a "_lock" place the worker is   *)
(* about to call rs.outputMutex.Lock; at the "_write" place after it, it   *)
(* is about to write to os.Stderr and unlock.                              *)
(***************************************************************************)
\* the place a worker is at once Lock has returned
AfterLock(at) ==
    CASE at = "begin" -> "started_write"
      [] at = "pipe_error_lock" -> "pipe_error_write"
      [] at = "start_error_lock" -> "start_error_write"
      [] at = "forward_lock" -> "forward_write"
      [] at = "completed_lock" -> "completed_write"
      [] OTHER -> at

LockPlaces == {"begin", "pipe_error_lock", "start_error_lock", "forward_lock", "completed_lock"}

WritePlaces == {AfterLock(at) : at \in LockPlaces}

\* lines 305, 326, 333, 350 and 360
WorkerLock(w) ==
    /\ wpc[w] \in LockPlaces
    /\ Lock(w)
    /\ wpc' = [wpc EXCEPT ![w] = AfterLock(wpc[w])]
    /\ UNCHANGED <<otherVars, files, pc, partitionVars, wg, errorOccured, stderr, line, nread>>

\* lines 306-307
StartedWrite(w) ==
    /\ wpc[w] = "started_write"
    /\ stderr' = Fprintf(stderr, Msg("Thread started", w - 1, <<>>))
    /\ Unlock(w)
    /\ wpc' = [wpc EXCEPT ![w] = "escape"]
    /\ UNCHANGED <<otherVars, files, pc, partitionVars, wg, errorOccured, line, nread>>

\* EscapeChunk of a goroutine that takes files from the loop of line 298
\* and not from its parameter: it has the chunk of the last group
EscapeLastChunk(w) ==
    /\ wpc[w] = "escape"
    /\ fileGroups' = [fileGroups EXCEPT ![Len(fileGroups)] = EscapeAll(@)]
    /\ wpc' = [wpc EXCEPT ![w] = "pipe"]
    /\ UNCHANGED <<otherVars, files, pc, groups, entries, assigned, wg, outputMutex,
                   errorOccured, stderr, line, nread>>

\* lines 310-315: chunk[i] = file writes through to the group's file list
EscapeChunk(w) ==
    /\ wpc[w] = "escape"
    /\ fileGroups' = [fileGroups EXCEPT ![w] = EscapeAll(@)]
    /\ wpc' = [wpc EXCEPT ![w] = "pipe"]
    /\ UNCHANGED <<otherVars, files, pc, groups, entries, assigned, wg, outputMutex,
                   errorOccured, stderr, line, nread>>

\* lines 322-325: exec.Command and cmd.StderrPipe, which may fail
StderrPipe(w) ==
    /\ wpc[w] = "pipe"
    /\ \E ok \in BOOLEAN :
          wpc' = [wpc EXCEPT ![w] = IF ok THEN "start" ELSE "pipe_error_lock"]
    /\ UNCHANGED <<otherVars, files, pc, partitionVars, wg, outputMutex, errorOccured,
                   stderr, line, nread>>

\* PipeErrorWrite without the Unlock of line 328
PipeErrorWriteLocked(w) ==
    /\ wpc[w] = "pipe_error_write"
    /\ stderr' = Fprintf(stderr, Msg("Error creating stderr pipe", w - 1, <<>>))
    /\ wg' = wg - 1
    /\ wpc' = [wpc EXCEPT ![w] = "done"]
    /\ UNCHANGED <<otherVars, files, pc, partitionVars, outputMutex, errorOccured, line, nread>>

\* lines 327-329, and the deferred wg.Done of line 301
PipeErrorWrite(w) ==
    /\ wpc[w] = "pipe_error_write"
    /\ stderr' = Fprintf(stderr, Msg("Error creating stderr pipe", w - 1, <<>>))
    /\ Unlock(w)
    /\ wg' = wg - 1
    /\ wpc' = [wpc EXCEPT ![w] = "done"]
    /\ UNCHANGED <<otherVars, files, pc, partitionVars, errorOccured, line, nread>>

\* line 332: cmd.Start, which may fail
CmdStart(w) ==
    /\ wpc[w] = "start"
    /\ \E ok \in BOOLEAN :
          wpc' = [wpc EXCEPT ![w] = IF ok THEN "scan" ELSE "start_error_lock"]
    /\ UNCHANGED <<otherVars, files, pc, partitionVars, wg, outputMutex, errorOccured,
                   stderr, line, nread>>

\* StartErrorWrite without the return of line 336: the worker goes on to
\* read the stream
StartErrorWriteNoReturn(w) ==
    /\ wpc[w] = "start_error_write"
    /\ stderr' = Fprintf(stderr, Msg("Error starting tarsnap", w - 1, <<>>))
    /\ Unlock(w)
    /\ wpc' = [wpc EXCEPT ![w] = "scan"]
    /\ UNCHANGED <<otherVars, files, pc, partitionVars, wg, errorOccured, line, nread>>

\* lines 334-336, and the deferred wg.Done of line 301
StartErrorWrite(w) ==
    /\ wpc[w] = "start_error_write"
    /\ stderr' = Fprintf(stderr, Msg("Error starting tarsnap", w - 1, <<>>))
    /\ Unlock(w)
    /\ wg' = wg - 1
    /\ wpc' = [wpc EXCEPT ![w] = "done"]
    /\ UNCHANGED <<otherVars, files, pc, partitionVars, errorOccured, line, nread>>

\* the place a worker goes to with a line of this class (lines 343-350)
AfterScan(class) ==
    CASE class = "skip" -> "scan"
      [] class = "error" -> "set_error"
      [] OTHER -> "forward_lock"

\* lines 341-345: scanner.Scan returns a line the subprocess printed
ScanLine(w) ==
    /\ wpc[w] = "scan"
    /\ nread[w] < MaxLines
    /\ \E text \in LineTexts :
          /\ wpc' = [wpc EXCEPT ![w] = AfterScan(Classify(text))]
          /\ line' = [line EXCEPT ![w] = text]
          /\ exitErrorRead' = (exitErrorRead \/ text \o <<NL>> = ExitError)
    /\ nread' = [nread EXCEPT ![w] = @ + 1]
    /\ UNCHANGED <<inputVars, returned, callVars, files, pc, partitionVars, wg, outputMutex, errorOccured, stderr>>

\* line 341: scanner.Scan returns false, the stream has ended
ScanEnd(w) ==
    /\ wpc[w] = "scan"
    /\ wpc' = [wpc EXCEPT ![w] = "wait"]
    /\ line' = [line EXCEPT ![w] = NoLine]
    /\ UNCHANGED <<otherVars, files, pc, partitionVars, wg, outputMutex, errorOccured,
                   stderr, nread>>

\* lines 347-348.  The write is not ordered with the writes of the other
\* workers; every one of them stores true, and the read of line 368 comes
\* after wg.Wait, so the field holds true once any of them has run.
SetError(w) ==
    /\ wpc[w] = "set_error"
    /\ errorOccured' = TRUE
    /\ wpc' = [wpc EXCEPT ![w] = "scan"]
    /\ line' = [line EXCEPT ![w] = NoLine]
    /\ UNCHANGED <<otherVars, files, pc, partitionVars, wg, outputMutex, stderr, nread>>

\* lines 351-352
ForwardWrite(w) ==
    /\ wpc[w] = "forward_write"
    /\ stderr' = Fprintf(stderr, Msg("line", Main, TrimSuffix(line[w] \o <<NL>>, <<NL>>)))
    /\ Unlock(w)
    /\ wpc' = [wpc EXCEPT ![w] = "scan"]
    /\ line' = [line EXCEPT ![w] = NoLine]
    /\ UNCHANGED <<otherVars, files, pc, partitionVars, wg, errorOccured, nread>>

\* line 355: cmd.Wait returns
CmdWait(w) ==
    /\ wpc[w] = "wait"
    /\ wpc' = [wpc EXCEPT ![w] = "completed_lock"]
    /\ UNCHANGED <<otherVars, files, pc, partitionVars, wg, outputMutex, errorOccured,
                   stderr, line, nread>>

\* lines 361-363, and the deferred wg.Done of line 301
CompletedWrite(w) ==
    /\ wpc[w] = "completed_write"
    /\ stderr' = Fprintf(stderr, Msg("Thread completed", w - 1, <<>>))
    /\ Unlock(w)
    /\ wg' = wg - 1
    /\ wpc' = [wpc EXCEPT ![w] = "done"]
    /\ UNCHANGED <<otherVars, files, pc, partitionVars, errorOccured, line, nread>>

Worker(w) ==
    \/ WorkerLock(w)
    \/ StartedWrite(w)
    \/ EscapeChunk(w)
    \/ StderrPipe(w)
    \/ PipeErrorWrite(w)
    \/ CmdStart(w)
    \/ StartErrorWrite(w)
    \/ ScanLine(w)
    \/ ScanEnd(w)
    \/ SetError(w)
    \/ ForwardWrite(w)
    \/ CmdWait(w)
    \/ CompletedWrite(w)

Next ==
    \/ NextPartition
    \/ Announce
    \/ Launch
    \/ Wait
    \/ CheckError
    \/ FinalLock
    \/ FinalWrite
    \/ \E w \in Workers : Worker(w)

Spec == Init /\ [][Next]_vars

(***************************************************************************)
(* Scheduling.  The Go scheduler runs every goroutine that can take a     *)
(* step: the steps of the main goroutine and of each worker are weakly     *)
(* fair.  A goroutine that waits in sync.Mutex.Lock is taken to get the    *)
(* mutex when it stays free, which is less than sync.Mutex promises (a     *)
(* waiter also gets it when it is released again and again).  There are at *)
(* most as many workers as targets.  A subprocess prints at most MaxLines  *)
(* lines, then closes its stream and exits.                                *)
(***************************************************************************)
MainStep ==
    \/ NextPartition
    \/ Announce
    \/ Launch
    \/ Wait
    \/ CheckError
    \/ FinalLock
    \/ FinalWrite

Fairness ==
    /\ WF_vars(MainStep)
    /\ \A w \in 1..Cardinality(RunNames) : WF_vars(w \in Workers /\ Worker(w))

SpecFair == Init /\ [][Next]_vars /\ Fairness

(***************************************************************************)
(* What the claims speak of.                                               *)
(***************************************************************************)
\* the extraction targets of the inventory: its entries that are no
\* directories, and its reconciled empty directories
Targets ==
    LET fileNames == {name \in DOMAIN files.m : name[Len(name)] # "/"}
        dirs == {name \in DOMAIN files.m : name[Len(name)] = "/"}
    IN  fileNames \cup EmptyDirs(fileNames, dirs)

\* a target's size: an empty directory is requested with size 0
TargetSize(name) == IF name[Len(name)] = "/" THEN 0 ELSE files.m[name].Size

TargetDate(name) == IF name[Len(name)] = "/" THEN ZeroDate ELSE files.m[name].Date

\* the previous snapshot holds the target with the same size and timestamp
Unchanged(name) ==
    /\ ~options.Previous.isNil
    /\ name \in DOMAIN options.Previous.m
    /\ options.Previous.m[name].Size = TargetSize(name)
    /\ options.Previous.m[name].Date = TargetDate(name)

EffectiveWeight(name) == IF Unchanged(name) THEN 0 ELSE TargetSize(name)

RECURSIVE Flatten(_)
Flatten(seqs) == IF seqs = <<>> THEN <<>> ELSE Head(seqs) \o Flatten(Tail(seqs))

RECURSIVE SumOfWeights(_)
SumOfWeights(names) ==
    IF names = <<>> THEN 0 ELSE EffectiveWeight(Head(names)) + SumOfWeights(Tail(names))

Largest(S) == CHOOSE x \in S : \A y \in S : y <= x

Smallest(S) == CHOOSE x \in S : \A y \in S : x <= y

GroupSizes == {groups[g].Size : g \in 1..Len(groups)}

\* the configured worker count K
WorkerCount == IF options.ThreadPoolSize = 0 THEN 10 ELSE options.ThreadPoolSize

\* the archive of the end-to-end scenario: four files, of sizes 100, 10, 10, 10
ScenarioArchive ==
    /\ ~files.isNil
    /\ DOMAIN files.m = FileNames
    /\ \E big \in FileNames :
          /\ files.m[big].Size = 100
          /\ \A name \in FileNames \ {big} : files.m[name].Size = 10

ScenarioBig == CHOOSE big \in FileNames : files.m[big].Size = 100

FileGroupsReturned == pc = "announce"

(***************************************************************************)
(* C1: after FileGroups, every extraction target is in exactly one         *)
(* returned group, exactly once, and the groups hold nothing else.         *)
(***************************************************************************)
C1_ExactCover ==
    FileGroupsReturned =>
        LET all == Flatten(fileGroups)
        IN  /\ \A t \in Targets : Cardinality({i \in 1..Len(all) : all[i] = t}) = 1
            /\ \A i \in 1..Len(all) : all[i] \in Targets

\* files and an empty directory, spread over two groups, beside a directory
\* that is no target
C1_Witness ==
    /\ FileGroupsReturned
    /\ Len(fileGroups) = 2
    /\ Cardinality(Targets) = 3
    /\ <<"x", "/">> \in Targets
    /\ <<"a", "/", "b", "/">> \in DOMAIN files.m \ Targets

C2_Descending ==
    \A i \in 1..(Len(entries) - 1) : entries[i].Info.Size >= entries[i + 1].Info.Size

C2_Step ==
    assigned' = assigned + 1 =>
        \E g \in 1..Len(groups) :
            /\ \A j \in 1..Len(groups) : groups[g].Size <= groups[j].Size
            /\ \A j \in 1..(g - 1) : groups[j].Size > groups[g].Size
            /\ groups'[g].Files = Append(groups[g].Files, entries[assigned + 1].Name)
            /\ \A j \in 1..Len(groups) \ {g} : groups'[j] = groups[j]

C2_Scenario ==
    (FileGroupsReturned /\ ScenarioArchive /\ tpsize = 2 /\ options.Previous.isNil) =>
        /\ Len(fileGroups) = 2
        /\ fileGroups[1] = <<ScenarioBig>>
        /\ Len(fileGroups[2]) = 3
        /\ \A i \in 1..3 : files.m[fileGroups[2][i]].Size = 10
        /\ groups[1].Size = 100
        /\ groups[2].Size = 30

(***************************************************************************)
(* C2: the targets are taken in descending order of raw size, and each is  *)
(* added to the group of smallest weight at that moment, the first of the  *)
(* groups tied for smallest; sizes 100, 10, 10, 10 with two workers and no *)
(* previous snapshot give the groups [100] and [10, 10, 10], of weights    *)
(* 100 and 30.                                                             *)
(***************************************************************************)
C2_GreedyLargestFirst == [](C2_Descending /\ C2_Scenario) /\ [][C2_Step]_vars

C2_Witness ==
    FileGroupsReturned /\ ScenarioArchive /\ tpsize = 2 /\ options.Previous.isNil

C3_Scenario ==
    (/\ FileGroupsReturned /\ ScenarioArchive /\ tpsize = 2
     /\ \A name \in FileNames : Unchanged(name) <=> name = ScenarioBig) =>
        \E g \in 1..Len(fileGroups) :
            /\ ScenarioBig \in Range(fileGroups[g])
            /\ Len(fileGroups[g]) >= 2

(***************************************************************************)
(* C3: at every step of the partitioning a group's weight is the sum of    *)
(* the effective weights of its files (0 for a file the previous snapshot  *)
(* holds with the same size and timestamp, its size otherwise); with sizes *)
(* 100, 10, 10, 10, two workers and the 100-byte file unchanged, that file *)
(* shares its group with other files.                                      *)
(***************************************************************************)
C3_DiscountedWeights ==
    /\ \A g \in 1..Len(groups) : groups[g].Size = SumOfWeights(groups[g].Files)
    /\ C3_Scenario

C3_Witness ==
    /\ FileGroupsReturned /\ ScenarioArchive /\ tpsize = 2
    /\ \A name \in FileNames : Unchanged(name) <=> name = ScenarioBig

AssignedWeights == {EffectiveWeight(entries[i].Name) : i \in 1..assigned}

(***************************************************************************)
(* C4: after every assignment, the largest group weight minus the smallest *)
(* one, over all K groups, is at most the largest effective weight of a    *)
(* target assigned so far.                                                 *)
(***************************************************************************)
C4_Spread ==
    Len(groups) >= 1 =>
        Largest(GroupSizes) - Smallest(GroupSizes) <= Largest(AssignedWeights \cup {0})

\* three targets on two groups, the spread as large as the claim allows
C4_Witness ==
    /\ Len(groups) = 2
    /\ assigned >= 3
    /\ Largest(GroupSizes) - Smallest(GroupSizes) = Largest(AssignedWeights \cup {0})
    /\ Largest(GroupSizes) > Smallest(GroupSizes)

C5_AtMostK ==
    /\ Len(fileGroups) <= WorkerCount
    /\ \A g \in 1..Len(fileGroups) : Len(fileGroups[g]) > 0

\* C5 as stated: for K = 1 the result is a single group that contains every
\* target
C5_Original ==
    FileGroupsReturned =>
        /\ C5_AtMostK
        /\ WorkerCount = 1 => (Len(fileGroups) = 1 /\ Range(fileGroups[1]) = Targets)

(***************************************************************************)
(* C5: FileGroups returns at most K groups and no group without files,     *)
(* where K is the configured worker count (10 when configured as 0).  As   *)
(* stated: for K = 1 the result is a single group that contains every      *)
(* target.  As amended: for K = 1 the result is a single group that        *)
(* contains every target when there is a target, and no group when there   *)
(* is none.                                                                *)
(***************************************************************************)
C5_GroupCount ==
    FileGroupsReturned =>
        /\ C5_AtMostK
        /\ WorkerCount = 1 =>
              IF Targets = {} THEN fileGroups = <<>>
              ELSE Len(fileGroups) = 1 /\ Range(fileGroups[1]) = Targets

\* one worker, several targets
C5_Witness ==
    /\ FileGroupsReturned
    /\ WorkerCount = 1
    /\ Len(fileGroups) = 1
    /\ Len(fileGroups[1]) >= 3

(***************************************************************************)
(* What the claims about Run speak of.                                     *)
(***************************************************************************)
\* the delayed-error message, as Run writes it at the end
FinalMessage == Msg("ExitError", Main, ExitError)

\* a line a worker forwards
LineMessage(text) == Msg("line", Main, text)

\* the messages with which a worker ends
EndMessages(w) ==
    {Msg("Thread completed", w - 1, <<>>),
     Msg("Error creating stderr pipe", w - 1, <<>>),
     Msg("Error starting tarsnap", w - 1, <<>>)}

Forwarded(out) == [text \in LineTexts |-> CopiesIn(LineMessage(text), out)]

WaitReturned == pc \in {"check", "final_lock", "final_write", "returned"}

\* the worker took the step
Moved(w) == wpc'[w] # wpc[w] \/ nread'[w] # nread[w] \/ line'[w] # line[w]

\* the line ends in the not-older or in the already-exists message
Benign(text) ==
    /\ Len(text) >= 1
    /\ text[Len(text)] \in {NotOlderError[1], AlreadyExists[1]}

\* the line is the delayed-error message
Delayed(text) == text = <<ExitError[1]>>

(***************************************************************************)
(* C6: Run launches exactly one worker per returned group, and neither     *)
(* returns nor writes the final delayed-error message before every         *)
(* launched worker has finished: after the end of its stream and the wait  *)
(* for its subprocess, or after a failure to start it.                     *)
(***************************************************************************)
C6_AllWorkersFinished ==
    /\ Len(wpc) <= Len(fileGroups)
    /\ \A w \in Workers :
          /\ CopiesIn(Msg("Thread started", w - 1, <<>>), stderr) <= 1
          /\ wpc[w] = "done" <=>
                \E m \in EndMessages(w) :
                    /\ CopiesIn(m, stderr) = 1
                    /\ \A o \in EndMessages(w) \ {m} : CopiesIn(o, stderr) = 0
    /\ (WaitReturned \/ CopiesIn(FinalMessage, stderr) > 0) =>
          /\ Len(wpc) = Len(fileGroups)
          /\ \A w \in Workers : wpc[w] = "done"

\* Run has returned after two workers, one that read its stream to the end
\* and one that could not start its subprocess
C6_Witness ==
    /\ pc = "returned"
    /\ Len(wpc) = 2
    /\ CopiesIn(Msg("Thread completed", 0, <<>>), stderr) = 1
    /\ CopiesIn(Msg("Error starting tarsnap", 1, <<>>), stderr) = 1

(***************************************************************************)
(* C7: when Run has finished, the delayed-error message has been written   *)
(* exactly once if some worker read a line equal to it, and not at all     *)
(* otherwise.                                                              *)
(***************************************************************************)
C7_DelayedErrorOnce ==
    pc = "returned" =>
        /\ CopiesIn(FinalMessage, stderr) = IF exitErrorRead THEN 1 ELSE 0
        /\ \A m \in BagToSet(stderr) : m.kind = "line" => m.text \o <<NL>> # ExitError

\* two workers have read two lines each, the message among them
C7_Witness ==
    /\ pc = "returned"
    /\ Len(wpc) = 2
    /\ \A w \in Workers : nread[w] = 2
    /\ exitErrorRead
    /\ CopiesIn(FinalMessage, stderr) = 1

\* where a worker is with the line it has read
C8_Handling ==
    \A w \in Workers :
        line[w] # NoLine =>
            IF Benign(line[w]) THEN wpc[w] = "scan"
            ELSE IF Delayed(line[w]) THEN wpc[w] = "set_error"
            ELSE wpc[w] \in {"forward_lock", "forward_write"}

\* what its steps do to the flag and to the stream
C8_Step ==
    /\ \A w \in Workers :
          Moved(w) =>
              CASE wpc[w] = "set_error" ->
                      errorOccured' /\ stderr' = stderr /\ wpc'[w] = "scan"
                [] wpc[w] = "forward_write" ->
                      /\ stderr' = stderr (+) SetToBag({LineMessage(line[w])})
                      /\ errorOccured' = errorOccured
                      /\ wpc'[w] = "scan"
                [] wpc[w] \in {"scan", "forward_lock"} ->
                      stderr' = stderr /\ errorOccured' = errorOccured
                [] OTHER ->
                      Forwarded(stderr') = Forwarded(stderr) /\ errorOccured' = errorOccured
    /\ (\A w \in Workers : ~Moved(w)) =>
          Forwarded(stderr') = Forwarded(stderr) /\ errorOccured' = errorOccured

(***************************************************************************)
(* C8: a line that ends in the not-older or the already-exists message is  *)
(* never forwarded and does not set the error flag; a line equal to the    *)
(* delayed-error message sets the flag and is never forwarded; every other *)
(* line is forwarded unchanged and does not set the flag.                  *)
(***************************************************************************)
C8_Classification == []C8_Handling /\ [][C8_Step]_vars

\* a worker has forwarded a line that only ends in the delayed-error
\* message, and has now read a benign line
C8_Witness ==
    \E w \in Workers :
        /\ line[w] = <<"x", NotOlderError[1]>>
        /\ nread[w] = 2
        /\ CopiesIn(LineMessage(<<"x", ExitError[1]>>), stderr) = 1
        /\ ~errorOccured

(***************************************************************************)
(* C9: every write of the error flag by a worker happens while the worker  *)
(* holds the output lock, so no two workers write it at the same time.     *)
(***************************************************************************)
C9_FlagWrittenUnderLock ==
    /\ \A w \in Workers : wpc[w] = "set_error" => outputMutex = w
    /\ Cardinality({w \in Workers : wpc[w] = "set_error"}) <= 1

Writing == {w \in Workers : wpc[w] \in WritePlaces} \cup
           (IF pc = "final_write" THEN {Main} ELSE {})

C10_Holders ==
    Len(wpc) >= 1 =>
        /\ \A t \in Writing : outputMutex = t
        /\ Cardinality(Writing) <= 1

C10_Step ==
    (Len(wpc) >= 1 /\ stderr' # stderr) =>
        /\ outputMutex \in Writing
        /\ outputMutex' = Free

(***************************************************************************)
(* C10: from the launch of the first worker until Run returns, every write *)
(* to the diagnostic stream, by a worker or by the main goroutine, is made *)
(* by the holder of the output lock, so at most one goroutine is writing.  *)
(***************************************************************************)
C10_WritesUnderLock == []C10_Holders /\ [][C10_Step]_vars

\* one worker is writing while the other waits for the lock
C10_Witness ==
    /\ Len(wpc) = 2
    /\ wpc[1] = "forward_write"
    /\ wpc[2] = "completed_lock"
    /\ outputMutex = 1

\* the messages with which a worker reports that it could not create the
\* pipe or start its subprocess
FailureMessages(w) ==
    {Msg("Error creating stderr pipe", w - 1, <<>>),
     Msg("Error starting tarsnap", w - 1, <<>>)}

FailureCount(w) ==
    CopiesIn(Msg("Error creating stderr pipe", w - 1, <<>>), stderr)
        + CopiesIn(Msg("Error starting tarsnap", w - 1, <<>>), stderr)

Failed(w) == FailureCount(w) >= 1

FailurePlaces ==
    {"pipe_error_lock", "pipe_error_write", "start_error_lock", "start_error_write"}

\* a worker that has reported the failure has reported it once, has read no
\* line (so it has forwarded none and has not set the flag), has written no
\* completion line, and has ended; the WaitGroup counts the workers that
\* have not ended; Run returns after a worker for every group
C11_Failed ==
    /\ \A w \in Workers :
          /\ wpc[w] \in FailurePlaces => (nread[w] = 0 /\ FailureCount(w) = 0)
          /\ Failed(w) =>
                /\ FailureCount(w) = 1
                /\ CopiesIn(Msg("Thread completed", w - 1, <<>>), stderr) = 0
                /\ nread[w] = 0
                /\ wpc[w] = "done"
    /\ wg = Cardinality({w \in Workers : wpc[w] # "done"})
    /\ pc = "returned" => Len(wpc) = Len(fileGroups)

\* the steps of a failing worker leave the flag alone, and a worker that
\* has reported the failure takes no further step
C11_Step ==
    \A w \in Workers :
        /\ (wpc[w] \in FailurePlaces /\ Moved(w)) => errorOccured' = errorOccured
        /\ Failed(w) => ~Moved(w)

C11_RunReturns ==
    (\E w \in Workers : Failed(w)) ~>
        (pc = "returned" /\ \A w \in Workers : wpc[w] = "done")

(***************************************************************************)
(* C11: a worker that cannot create the pipe or start its subprocess       *)
(* reports the failure once, writes nothing further (no completion line),  *)
(* does not set the error flag and counts as finished; every other worker  *)
(* still runs to its end and Run returns.                                  *)
(***************************************************************************)
C11_StartupFailure == []C11_Failed /\ [][C11_Step]_vars /\ C11_RunReturns

\* the first worker could not create its pipe; the second one, launched
\* all the same, has read its stream to the end; Run has returned
C11_Witness ==
    /\ pc = "returned"
    /\ Len(wpc) = 2
    /\ CopiesIn(Msg("Error creating stderr pipe", 0, <<>>), stderr) = 1
    /\ CopiesIn(Msg("Thread completed", 1, <<>>), stderr) = 1
    /\ nread[2] = 2
    /\ ~errorOccured

\* the calls of GetFiles made so far
Calls == 1..Len(returned)

\* C12 as stated: every call returns the mapping the first call returned,
\* and no call but the first starts the listing subprocess
C12_Original ==
    \A i \in Calls :
        /\ returned[i].value = returned[1].value
        /\ i > 1 => ~returned[i].ran

(***************************************************************************)
(* C12: as stated, over any sequence of calls of GetFiles every call       *)
(* returns the identical mapping and only the first call invokes the       *)
(* listing client.  As amended: at most one call starts the listing        *)
(* subprocess; every call after it returns the mapping that call returned  *)
(* and starts nothing; every call before it could not pipe or start the    *)
(* subprocess and returned no mapping.                                     *)
(***************************************************************************)
C12_Idempotent ==
    /\ Cardinality({i \in Calls : returned[i].ran}) <= 1
    /\ \A i \in Calls :
          IF \E j \in 1..i : returned[j].ran
          THEN /\ ~returned[i].value.isNil
               /\ returned[i].value.m = listing
               /\ \A j \in 1..i : returned[j].ran => returned[i].value = returned[j].value
          ELSE returned[i].value.isNil

\* the first call could not start the subprocess and returned nil, the
\* second one started it, the third one found the inventory built, at a
\* time when the subprocess could not have been started
C12_Witness ==
    /\ Len(returned) = 3
    /\ returned[1].value.isNil
    /\ returned[2].ran
    /\ ~returned[3].ran
    /\ ~returned[3].value.isNil
    /\ listStart \in {"pipe", "start"}

\* the listing subprocess cannot be piped or started
ListingFails == listStart \in {"pipe", "start"}

ListingFailure ==
    IF listStart = "pipe" THEN Msg("Error creating stdout pipe", Main, <<>>)
    ELSE Msg("Error starting tarsnap", Main, <<>>)

GetFilesReturned == Len(returned) >= 1

(***************************************************************************)
(* C13: if the listing subprocess cannot be piped or started, GetFiles     *)
(* reports it and returns no entries (no inventory is built), FileGroups   *)
(* returns zero groups, and Run launches no worker, sets no error flag and *)
(* writes no delayed-error message.                                        *)
(***************************************************************************)
C13_ListingFailure ==
    ListingFails =>
        /\ files.isNil
        /\ \A i \in Calls : returned[i].value.isNil /\ ~returned[i].ran
        /\ GetFilesReturned =>
              /\ CopiesIn(ListingFailure, stderr) = 1
              /\ \A m \in BagToSet(stderr) : m.kind # "File scanning complete"
        /\ entries = <<>>
        /\ fileGroups = <<>>
        /\ wpc = <<>>
        /\ wg = 0
        /\ ~errorOccured
        /\ CopiesIn(FinalMessage, stderr) = 0
        /\ pc \in {"launch", "check", "returned"} =>
              CopiesIn(Msg("Creating worker threads", 0, <<>>), stderr) = 1
        /\ pc \notin {"final_lock", "final_write"}

\* Run has returned after a listing that could not be started, with ten
\* groups made and none returned
C13_Witness ==
    /\ listStart = "start"
    /\ pc = "returned"
    /\ Len(groups) = ThreadPoolDefaultSize
    /\ BagToSet(stderr) = {ListingFailure, Msg("Creating worker threads", 0, <<>>)}

\* dir is the directory the file is in: the name of the file is the name
\* of dir and one more component
ImmediateParent(dir, file) ==
    /\ Len(file) > Len(dir)
    /\ SubSeq(file, 1, Len(dir)) = dir
    /\ "/" \notin Range(SubSeq(file, Len(dir) + 1, Len(file)))

\* dir is above the other directory
ProperAncestor(dir, other) ==
    /\ Len(other) > Len(dir)
    /\ SubSeq(other, 1, Len(dir)) = dir

\* the directories the claim names
LeafDirsWithoutFiles(fileNames, dirs) ==
    {dir \in dirs :
        /\ \A file \in fileNames : ~ImmediateParent(dir, file)
        /\ \A other \in dirs : ~ProperAncestor(dir, other)}

C14_Examples ==
    /\ (/\ input.files = {<<"a", "/", "b", "/", "c", ".", "t", "x", "t">>}
        /\ input.dirs = {<<"a", "/">>, <<"a", "/", "b", "/">>}) => output.value = {}
    /\ (/\ input.files = {}
        /\ input.dirs = {<<"x", "/">>, <<"y", "/">>}) => output.value = input.dirs

(***************************************************************************)
(* C14: EmptyDirs returns exactly the directories of its input that are    *)
(* neither the immediate parent of a file nor a proper ancestor of a       *)
(* directory of the input; a/, a/b/ with a/b/c.txt give nothing, and x/,   *)
(* y/ without files give x/ and y/.                                        *)
(***************************************************************************)
C14_EmptyDirs ==
    output.done =>
        /\ output.value = LeafDirsWithoutFiles(input.files, input.dirs)
        /\ C14_Examples

\* what holds of EmptyDirs: the claim, for names that filepath.Clean leaves
\* as they are (but for the "/" that ends the name of a directory)
C14_PlainNames ==
    (/\ output.done
     /\ \A name \in input.files \cup input.dirs : Clean(name) = TrimSuffix(name, <<"/">>)) =>
        /\ output.value = LeafDirsWithoutFiles(input.files, input.dirs)
        /\ C14_Examples

\* the fields of a listing line, told apart at white space
LineFields(entry) == Fields(entry)

\* the field is a number: a sign or none, then digits
Numeric(field) ==
    \E sign \in {<<>>, <<"+">>, <<"-">>} :
        \E digits \in {SubSeq(field, Len(sign) + 1, Len(field))} :
            /\ SubSeq(field, 1, Len(sign)) = sign
            /\ Len(digits) >= 1
            /\ \A i \in 1..Len(digits) : digits[i] \in Range(DecimalDigits)

\* the number the field writes
NumberOf(field) == IF field[1] = "-" THEN 0 - Atoi(Tail(field))
                   ELSE IF field[1] = "+" THEN Atoi(Tail(field)) ELSE Atoi(field)

\* the date of the line parses under one of the two forms
DateParses(entry) ==
    LET f == LineFields(entry)
    IN  IF ":" \in Range(f[8])
        THEN \/ TimeParse(TRUE, <<f[6], f[7], Itoa(input.now.year), f[8]>>).ok
             \/ TimeParse(FALSE, <<f[6], f[7], Itoa(input.now.year), f[8]>>).ok
        ELSE \/ TimeParse(TRUE, <<f[6], f[7], f[8]>>).ok
             \/ TimeParse(FALSE, <<f[6], f[7], f[8]>>).ok

WellFormed(entry) ==
    /\ Len(LineFields(entry)) >= 9
    /\ Numeric(LineFields(entry)[5])
    /\ DateParses(entry)

\* fields 9 and onward
NameFields(entry) ==
    LET f == LineFields(entry)
    IN  Join([i \in 1..(Len(f) - 8) |-> f[i + 8]], " ")

\* a line that is not well-formed leaves the inventory as it is; any other
\* line puts its entry into it and leaves the other entries as they are
C15_Step ==
    scanned' = scanned + 1 =>
        LET entry == input.lines[scanned + 1]
        IN  IF ~WellFormed(entry) THEN files' = files
            ELSE LET name == NameFields(entry)
                 IN  /\ DOMAIN files'.m = DOMAIN files.m \cup {name}
                     /\ files'.m[name].Size = NumberOf(LineFields(entry)[5])
                     /\ \A other \in DOMAIN files.m \ {name} : files'.m[other] = files.m[other]

\* every entry of the inventory comes from a well-formed line that was read
C15_Inventory ==
    \A name \in DOMAIN files.m :
        \E i \in 1..scanned :
            /\ WellFormed(input.lines[i])
            /\ NameFields(input.lines[i]) = name
            /\ NumberOf(LineFields(input.lines[i])[5]) = files.m[name].Size

(***************************************************************************)
(* C15: a listing line with fewer than 9 fields, with a field 5 that is no *)
(* number, or with a date that parses under neither form adds no entry to  *)
(* the inventory; every other line adds an entry whose size is field 5 and *)
(* whose name is fields 9 and onward; so the inventory holds no entry that *)
(* does not come from a well-formed line.                                  *)
(***************************************************************************)
C15_Parser == []C15_Inventory /\ [][C15_Step]_vars

\* a line without a name and a well-formed line of a name of two fields
\* have been read
C15_Witness ==
    /\ output.done
    /\ scanned = 2
    /\ Len(LineFields(input.lines[1])) = 8
    /\ DOMAIN output.value.m = {<<"f", " ", "g">>}
    /\ output.value.m[<<"f", " ", "g">>].Size = 0 - 5

\* the six characters the claim names
Globs == {"*", "?", "[", "]", "{", "}"}

\* where character i of the name is in the escaped name: behind as many
\* backslashes as there are glob characters up to it
PlaceOf(name, i) == i + Cardinality({j \in 1..i : name[j] \in Globs})

\* escaped is name with one backslash added before each glob character
EscapedOf(name, escaped) ==
    /\ Len(escaped) = PlaceOf(name, Len(name))
    /\ \A i \in 1..Len(name) :
          /\ escaped[PlaceOf(name, i)] = name[i]
          /\ name[i] \in Globs => escaped[PlaceOf(name, i) - 1] = "\\"

(***************************************************************************)
(* C16: the file names a worker passes to the subprocess are those of its  *)
(* group, as many and in the same order, each with one backslash added     *)
(* before every occurrence of * ? [ ] { } and its other characters         *)
(* unchanged and in the same order.                                        *)
(***************************************************************************)
C16_Escaped ==
    (input.op = "Escape" /\ output.done) =>
        /\ Len(output.value) = Len(input.chunk)
        /\ \A i \in 1..Len(input.chunk) : EscapedOf(input.chunk[i], output.value[i])

\* a group of two names: one of two equal glob characters, one of a
\* backslash before a glob character
C16_Witness ==
    /\ output.done
    /\ input.chunk = <<<<"*", "*">>, <<"\\", "{">>>>
    /\ output.value = <<<<"\\", "*", "\\", "*">>, <<"\\", "\\", "{">>>>

\* the name a pattern matches literally: a backslash and the character
\* after it are read as that character
RECURSIVE Unescape(_)
Unescape(arg) ==
    IF arg = <<>> THEN <<>>
    ELSE IF Head(arg) = "\\" /\ Len(arg) >= 2
         THEN <<arg[2]>> \o Unescape(SubSeq(arg, 3, Len(arg)))
         ELSE <<Head(arg)>> \o Unescape(Tail(arg))

\* no two distinct file names have the same escaped argument
C17_Injective ==
    \A i, j \in 1..Len(input.chunk) :
        input.chunk[i] # input.chunk[j] => output.value[i] # output.value[j]

C17_WithoutBackslash ==
    (input.op = "Escape" /\ output.done) =>
        /\ \A i \in 1..Len(input.chunk) :
              "\\" \notin Range(input.chunk[i]) => Unescape(output.value[i]) = input.chunk[i]
        /\ C17_Injective

\* the file lists as FileGroups returned them
ReturnedGroups == NonEmptyFiles(groups)

BeforeEscape == {"begin", "started_write", "escape"}

\* C18 as stated: once the groups are returned no file list changes
C18_ReadOnly == [][pc # "assign" => fileGroups' = fileGroups]_vars

\* a worker that has done its escaping has the escaped names of its group
\* in the file list, any other group is as it was returned
C18_Lists ==
    pc \notin {"FileGroups", "GetFiles", "FilesToExtract", "assign"} =>
        \A g \in 1..Len(fileGroups) :
            IF g \in Workers /\ wpc[g] \notin BeforeEscape
            THEN /\ Len(fileGroups[g]) = Len(ReturnedGroups[g])
                 /\ \A i \in 1..Len(fileGroups[g]) :
                       EscapedOf(ReturnedGroups[g][i], fileGroups[g][i])
            ELSE fileGroups[g] = ReturnedGroups[g]

\* a file list changes only in the step in which its worker escapes it
C18_Step ==
    (pc # "assign" /\ fileGroups' # fileGroups) =>
        \E w \in Workers :
            /\ wpc[w] = "escape"
            /\ wpc'[w] = "pipe"
            /\ \A v \in Workers \ {w} : wpc'[v] = wpc[v]
            /\ \A g \in 1..Len(fileGroups) \ {w} : fileGroups'[g] = fileGroups[g]

(***************************************************************************)
(* C18: as stated, a worker never modifies the file list of its group and  *)
(* no worker reads or writes the list of another group.  As amended: the   *)
(* only change a worker makes to the file list of its group is to replace  *)
(* each name by its escaped form, in place and in one pass before it       *)
(* starts its subprocess; no worker writes the list of another group, and  *)
(* what a worker writes depends on the list of its own group alone.        *)
(***************************************************************************)
C18_OwnGroupOnly == []C18_Lists /\ [][C18_Step]_vars

\* the first worker has escaped the name g* of its group, the second one
\* has not yet started on its own
C18_Witness ==
    /\ Len(wpc) = 2
    /\ wpc[1] = "scan"
    /\ wpc[2] = "begin"
    /\ fileGroups = <<<<(<<"g", "\\", "*">>)>>, <<(<<"x", "/">>)>>>>

\* the places at which a worker waits for its subprocess: for the pipe,
\* for the start, for a line or the end of the stream, for the exit
BlockingPlaces == {"pipe", "start", "scan", "wait"}

\* a goroutine holds the lock only between its Lock and the write that
\* follows it, never at a place where it waits for its subprocess or after
\* it has ended
C19_HeldToWrite ==
    /\ \A w \in Workers : outputMutex = w <=> wpc[w] \in WritePlaces
    /\ outputMutex = Main <=> pc = "final_write"
    /\ \A w \in Workers : wpc[w] \in BlockingPlaces \cup {"done"} => outputMutex # w

\* the step that writes to the stream releases the lock
C19_Release ==
    (Len(wpc) >= 1 /\ stderr' # stderr) => (outputMutex # Free /\ outputMutex' = Free)

\* a worker that waits for the lock gets it
C19_NoStarvation ==
    \A w \in 1..Cardinality(RunNames) :
        (w \in Workers /\ wpc[w] \in LockPlaces)
            ~> (w \in Workers /\ wpc[w] \in WritePlaces)

(***************************************************************************)
(* C19: when every subprocess closes its stream and exits, Run returns:    *)
(* under fair scheduling no worker waits for the output lock forever, as   *)
(* the lock is released with every write, on every path, and is not held   *)
(* while a worker waits for a pipe, a start, a line or an exit.            *)
(***************************************************************************)
C19_RunReturns ==
    /\ []C19_HeldToWrite
    /\ [][C19_Release]_vars
    /\ C19_NoStarvation
    /\ <>(pc = "returned")

\* a worker that could not start its subprocess holds the lock for its
\* report while the other one waits for the lock with a line to forward
C19_Witness ==
    /\ Len(wpc) = 2
    /\ wpc[1] = "start_error_write"
    /\ wpc[2] = "forward_lock"
    /\ outputMutex = 1

\* the components of the path a name stands for
PathOf(name) == IF Clean(name) = <<".">> THEN <<>> ELSE Split(Clean(name), "/")

\* the directory is above the target in the file system
AncestorOf(dir, target) ==
    /\ Len(PathOf(dir)) < Len(PathOf(target))
    /\ SubSeq(PathOf(target), 1, Len(PathOf(dir))) = PathOf(dir)

InventoryDirs == {name \in DOMAIN input.allFiles : name[Len(name)] = "/"}

(***************************************************************************)
(* C20: every directory of the inventory is an extraction target itself or *)
(* is an ancestor of an extraction target, a file or an empty directory.   *)
(***************************************************************************)
C20_DirsRecreated ==
    (input.op = "FilesToExtract" /\ output.done) =>
        \A dir \in InventoryDirs :
            \/ dir \in DOMAIN output.value
            \/ \E target \in DOMAIN output.value : AncestorOf(dir, target)

\* a/ is no target: it is above the file a/f and above the empty
\* directory a/b/; x/ is a target
C20_Witness ==
    /\ output.done
    /\ DOMAIN input.allFiles = {<<"a", "/">>, <<"a", "/", "b", "/">>, <<"x", "/">>,
                                <<"a", "/", "f">>}
    /\ DOMAIN output.value = {<<"a", "/", "b", "/">>, <<"x", "/">>, <<"a", "/", "f">>}

====
